---- MODULE Spec2Model ----
(***************************************************************************)
(* Model of orchestrator/main.py: the batch orchestrator that runs one     *)
(* four-stage pipeline (decrypt, restore, compare, analyze) per student    *)
(* directory on a thread pool, and aggregates one CSV row per student.     *)
(*                                                                         *)
(* The external tools are opaque: each invocation's outcome is chosen      *)
(* nondeterministically among the outcomes the helper functions            *)
(* distinguish (success, recognised failure, or an exception the helper    *)
(* does not catch, which crashes the task).                                *)
(***************************************************************************)
EXTENDS Integers, Sequences, FiniteSets, TLC

\* ------------------------------------------------------------------ bounds

\* Student directory names: "student-<digits>", kept as the digit sequence.
\* Python compares the names as strings, i.e. lexicographically, so
\* student-10 sorts before student-2.
StudentIds == { <<1, 0>>, <<2>> }

\* Size of the thread pool (os.cpu_count() of the machine).
PoolSize == 2

\* Longest duplicate-finder stdout, in lines.
MaxDupLines == 4

\* Integers the analyzer may print in front of " / 100".
PrintedScores == { 100, 101 }

\* ------------------------------------------------------------- value shapes

\* "no match" / "no result"; the empty sequence is no directory name
None == << >>

\* analysis_score is either a sentinel string or an int; a record per shape
\* keeps the two apart.
Sentinel(s) == [sentinel |-> s]
Score(n) == [score |-> n]
IsNumeric(v) == DOMAIN v = {"score"}

\* chr(ord('A') + n - 1) for n = 1, 2, ...  (code points 65 .. 95)
CodePointChars ==
  << "A", "B", "C", "D", "E", "F", "G", "H", "I", "J", "K", "L", "M",
     "N", "O", "P", "Q", "R", "S", "T", "U", "V", "W", "X", "Y", "Z",
     "[", "\\", "]", "^", "_" >>

Letters == { CodePointChars[n] : n \in 1..26 }

\* (mutant) chr(ord('A') + group_counter), one letter too far
GroupLabelOffByOne(group_counter) == CodePointChars[group_counter + 1]

GroupLabel(group_counter) == CodePointChars[group_counter]

\* a < b for two directory names compared as Python strings
StrLess(a, b) ==
  \E k \in 1..(Len(a) + 1) :
     /\ \A j \in 1..(k - 1) : j <= Len(b) /\ a[j] = b[j]
     /\ IF k <= Len(a)
          THEN k <= Len(b) /\ a[k] < b[k]
          ELSE k <= Len(b)

\* list.insert into an ascending list, after the elements whose key is not
\* greater (sorted() is stable)
RECURSIVE InsertByStudentId(_, _)
InsertByStudentId(row, rows) ==
  IF rows = <<>> THEN << row >>
  ELSE IF StrLess(row.student_id, Head(rows).student_id)
         THEN << row >> \o rows
         ELSE << Head(rows) >> \o InsertByStudentId(row, Tail(rows))

\* sorted(report_data, key=lambda item: item[student_id])
RECURSIVE SortedByStudentId(_)
SortedByStudentId(rows) ==
  IF rows = <<>> THEN <<>>
  ELSE InsertByStudentId(rows[Len(rows)],
                         SortedByStudentId(SubSeq(rows, 1, Len(rows) - 1)))

\* sorted(student_dirs): the ascending list of a set of directory names
RECURSIVE SortedDirs(_)
SortedDirs(dirs) ==
  IF dirs = {} THEN <<>>
  ELSE LET first == CHOOSE d \in dirs : \A e \in dirs \ {d} : StrLess(d, e)
       IN  << first >> \o SortedDirs(dirs \ {first})

\* ------------------------------------------------- duplicate-finder output

\* A stdout line, by the three tests the parser makes on it:
\*   dashes : line.startswith("---")
\*   sep    : " - " in line
\*   match  : student_id_pattern.search(line), the captured id or None
Lines ==
  [dashes : BOOLEAN, sep : BOOLEAN, match : StudentIds \cup {None}]

DelimiterLine == [dashes |-> TRUE, sep |-> FALSE, match |-> None]
MemberLine(id) == [dashes |-> FALSE, sep |-> TRUE, match |-> id]

RECURSIVE SeqsUpTo(_, _)
SeqsUpTo(S, n) ==
  IF n = 0 THEN { <<>> }
  ELSE LET shorter == SeqsUpTo(S, n - 1)
       IN  shorter \cup { Append(s, x) : s \in shorter, x \in S }

\* The lines tried: a delimiter, a member line per id, a path with no " - "
\* in it, and a line that starts with dashes and also names a member.
DupLineKinds ==
  { DelimiterLine } \cup { MemberLine(i) : i \in StudentIds }
  \cup { [dashes |-> FALSE, sep |-> FALSE, match |-> <<1, 0>>],
         [dashes |-> TRUE, sep |-> TRUE, match |-> <<2>>] }

DupOutputs == SeqsUpTo(DupLineKinds, MaxDupLines)

\* One long output: one group more than there are letters, then a member
\* of the last group.
ManyGroupsOutput ==
  [k \in 1..(Cardinality(Letters) + 2) |->
     IF k <= Cardinality(Letters) + 1 THEN DelimiterLine
                                     ELSE MemberLine(<<1, 0>>)]

\* Parser state after the loop over the lines: the counter, the current
\* label and the map (a function from the ids that matched to labels).
ParseInit == [group_counter |-> 0, current_group_id |-> "", map |-> << >>]

ParseLine(st, line) ==
  IF line.dashes
    THEN [st EXCEPT !.group_counter = st.group_counter + 1,
                    !.current_group_id = GroupLabel(st.group_counter + 1)]
    ELSE IF line.sep /\ line.match # None
      THEN [st EXCEPT !.map =
              [id \in DOMAIN st.map \cup {line.match} |->
                 IF id = line.match THEN st.current_group_id ELSE st.map[id]]]
      ELSE st

RECURSIVE ParseLines(_, _)
ParseLines(st, lines) ==
  IF lines = <<>> THEN st
  ELSE ParseLines(ParseLine(st, Head(lines)), Tail(lines))

ParseDupOutput(lines) == ParseLines(ParseInit, lines).map

\* (mutant) .get without the default that matters: the empty label
DuplicationGroupNoDefault(map, id) == IF id \in DOMAIN map THEN map[id] ELSE ""

\* duplication_map.get(student_id, 'UNIQUE')
DuplicationGroup(map, id) == IF id \in DOMAIN map THEN map[id] ELSE "UNIQUE"

\* ------------------------------------------------------------------- state

VARIABLES
  main_pc,            \* where main() is
  student_dirs,       \* the directories under student_submission/
  files,              \* per student: which of the pipeline's files exist
  inspector_exists,   \* paths['inspector_exe_path'].exists()
  dup_tool,           \* the duplicate finder: present?, exit status, stdout
  duplication_map,    \* main's duplication_map
  to_submit,          \* student_dirs not yet handed to executor.submit
  task_pc,            \* per student: where its task is
  pipeline_status,    \* per student: process_student_submission's locals
  comparison_result,
  analysis_score,
  decryption_ok,
  diff_result,        \* per student: what the diff script's run gave
  inspector_result,   \* per student: what the inspector's run gave
  poetry_result,      \* per student: what each run_poetry_project call gave
  calls,              \* per student: invocations made of each external tool
  dup_calls,          \* invocations made of the duplicate finder
  result,             \* per student: the future's result, once returned
  report_data,        \* main's report_data list
  collected,          \* futures as_completed has already yielded
  header_writes,      \* times the header row was written to the report
  report_rows,        \* data rows in the report file
  append_failed,      \* the final append raised IOError
  log_removed         \* per student: its decrypted log was removed by
                      \* something other than the orchestrator

vars == << main_pc, student_dirs, files, inspector_exists, dup_tool,
           duplication_map, to_submit, task_pc, pipeline_status,
           comparison_result, analysis_score, decryption_ok, diff_result,
           inspector_result, poetry_result, calls, dup_calls, result,
           report_data, collected, header_writes, report_rows, append_failed,
           log_removed >>

main_vars == << main_pc, duplication_map, dup_calls, to_submit, report_data,
                collected, header_writes, report_rows, append_failed >>

\* process_student_submission's locals and the record of its tool calls
locals == << pipeline_status, comparison_result, analysis_score,
             decryption_ok, diff_result, inspector_result, poetry_result,
             calls >>

env_vars == << student_dirs, inspector_exists, dup_tool, log_removed >>

\* Files of one student the pipeline looks at.  The decrypted files may be
\* left over from an earlier run: the output directory is made with
\* mkdir(exist_ok=True) and never emptied.
FileStates ==
  [log_encrypted : BOOLEAN, signature_encrypted : BOOLEAN,
   original_main_py : BOOLEAN,
   log_decrypted : BOOLEAN, signature_decrypted : BOOLEAN,
   log_restored : {FALSE}]

DupTools ==
  { [exists |-> FALSE, ok |-> FALSE, stdout |-> << >>],
    [exists |-> TRUE, ok |-> FALSE, stdout |-> << >>] }
  \cup { [exists |-> TRUE, ok |-> TRUE, stdout |-> out] :
           out \in DupOutputs \cup { ManyGroupsOutput } }

NoCalls == [decoder |-> 0, restore |-> 0, diff |-> 0, inspector |-> 0]

NotRun == "not_run"
NoPoetryRuns ==
  [decoder_log |-> NotRun, decoder_signature |-> NotRun, restore |-> NotRun]
DiffNotRun == [ran |-> FALSE, raised |-> FALSE, exit0 |-> FALSE, marker |-> FALSE]
InspectorNotRun ==
  [ran |-> FALSE, raised |-> FALSE, exit0 |-> FALSE, matched |-> FALSE,
   group1 |-> 0]

InitRun ==
  /\ main_pc = "write_header"
  /\ duplication_map = << >>
  /\ to_submit = << >>
  /\ task_pc = [i \in student_dirs |-> "unsubmitted"]
  /\ pipeline_status = [i \in student_dirs |-> "OK"]
  /\ comparison_result = [i \in student_dirs |-> "NOT_CHECKED"]
  /\ analysis_score = [i \in student_dirs |-> Sentinel("NOT_ANALYZED")]
  /\ decryption_ok = [i \in student_dirs |-> TRUE]
  /\ diff_result = [i \in student_dirs |-> DiffNotRun]
  /\ inspector_result = [i \in student_dirs |-> InspectorNotRun]
  /\ poetry_result = [i \in student_dirs |-> NoPoetryRuns]
  /\ calls = [i \in student_dirs |-> NoCalls]
  /\ dup_calls = 0
  /\ result = [i \in student_dirs |-> None]
  /\ report_data = << >>
  /\ collected = {}
  /\ header_writes = 0
  /\ report_rows = << >>
  /\ append_failed = FALSE
  /\ log_removed = [i \in student_dirs |-> FALSE]

\* The batch as a whole: any set of student directories, each either a
\* complete submission or one with no log subdirectory, output directories
\* fresh; the duplicate finder absent, failing, or reporting one group.
BatchFileStates ==
  { f \in FileStates :
      /\ f.original_main_py
      /\ f.log_encrypted = f.signature_encrypted
      /\ ~f.log_decrypted /\ ~f.signature_decrypted }

BatchDupTools ==
  { t \in DupTools :
      t.stdout \in { << >>, << DelimiterLine, MemberLine(<<2>>) >> } }

Init ==
  /\ student_dirs \in SUBSET StudentIds
  /\ files \in [student_dirs -> BatchFileStates]
  /\ inspector_exists \in BOOLEAN
  /\ dup_tool \in BatchDupTools
  /\ InitRun

\* One student directory in every state of its files.
InitItem ==
  /\ student_dirs = { <<1, 0>> }
  /\ files \in [student_dirs -> FileStates]
  /\ inspector_exists \in BOOLEAN
  /\ dup_tool \in BatchDupTools
  /\ InitRun

\* One student directory and every duplicate-finder output of up to
\* MaxDupLines lines, and the one with more groups than letters.
InitDup ==
  /\ student_dirs = { <<1, 0>> }
  /\ files \in [student_dirs -> BatchFileStates]
  /\ inspector_exists \in BOOLEAN
  /\ dup_tool \in DupTools
  /\ InitRun

\* ------------------------------------------------------ external tool calls

\* run_poetry_project: True, False (the exceptions it catches), or an
\* exception it does not catch (anything but FileNotFoundError and
\* CalledProcessError), which leaves the task.
PoetryOutcomes == { "ok", "fail", "raise" }

\* subprocess.run of the diff script: exit status and whether stdout holds
\* the marker; or an exception run_plain_python_script does not catch.
DiffOutcomes ==
  [ran : {TRUE}, raised : {FALSE}, exit0 : BOOLEAN, marker : BOOLEAN]
  \cup { [ran |-> TRUE, raised |-> TRUE, exit0 |-> FALSE, marker |-> FALSE] }

\* subprocess.run of the inspector: exit status (or launch failure), and
\* what score_pattern.search finds in stdout; or an uncaught exception.
InspectorOutcomes ==
  { [InspectorNotRun EXCEPT !.ran = TRUE, !.raised = TRUE],
    [InspectorNotRun EXCEPT !.ran = TRUE],
    [InspectorNotRun EXCEPT !.ran = TRUE, !.exit0 = TRUE] }
  \cup { [InspectorNotRun EXCEPT !.ran = TRUE, !.exit0 = TRUE,
                                 !.matched = TRUE, !.group1 = n] :
           n \in PrintedScores }

\* (mutant) the marker test left out: any run that exited 0 counts as OK
ComparisonIgnoringMarker(run) ==
  IF run.exit0 THEN "OK" ELSE "CHECK_FAILED"

\* comparison_result from the diff script's run (None when it exited non-zero)
ComparisonOf(run) ==
  IF run.exit0 /\ run.marker THEN "OK"
  ELSE IF run.exit0 THEN "DIFFERENT"
  ELSE "CHECK_FAILED"

\* (mutant) no else branch: a failed run leaves analysis_score as it was
AnalysisOfWithoutElse(run) ==
  IF run.exit0
    THEN IF run.matched THEN Score(run.group1) ELSE Sentinel("SCORE_NOT_FOUND")
    ELSE Sentinel("NOT_ANALYZED")

\* analysis_score from the inspector's run (None when it failed)
AnalysisOf(run) ==
  IF run.exit0
    THEN IF run.matched THEN Score(run.group1) ELSE Sentinel("SCORE_NOT_FOUND")
    ELSE Sentinel("ANALYSIS_FAILED")

\* (mutant) the row reports pipeline_status itself
FinalStatusIsPipelineStatus(status, comparison) == status

\* final_status = comparison_result if pipeline_status == "OK" else pipeline_status
FinalStatus(status, comparison) == IF status = "OK" THEN comparison ELSE status

\* parse_signature_file: what it can return for a file that exists
SignatureParses ==
  { "Seoul", "KEY_OR_TYPE_INVALID", "JSON_DECODE_ERROR", "UNKNOWN_PARSING_ERROR" }

Row(id, status, group, score, location) ==
  [student_id |-> id, status |-> status, duplication_group |-> group,
   process_analysis_score |-> score, location |-> location]

\* (mutant) the crash row with the status column left at the filler value
CrashRowWithoutStatus(id) ==
  Row(id, "N/A", "N/A", Sentinel("N/A"), "N/A")

\* the row main substitutes when future.result() raises
CrashRow(id) ==
  Row(id, "PIPELINE_CRASH", "N/A", Sentinel("N/A"), "N/A")

\* ----------------------------------------------------- the item pipelines

RunningPcs ==
  { "decrypt_log", "decrypt_signature", "restore", "compare", "analyze",
    "aggregate" }

Running == { i \in student_dirs : task_pc[i] \in RunningPcs }
Finished == { i \in student_dirs : task_pc[i] \in {"returned", "raised"} }

\* (mutant) the statement after the decrypt loop left out
StatusAfterDecryptUnset(ok) == "OK"

\* if not decryption_ok: pipeline_status = "DECRYPT_FAILED"
StatusAfterDecrypt(ok) == IF ~ok THEN "DECRYPT_FAILED" ELSE "OK"

\* (mutant) the stages run whatever the earlier stages did
StageGateOpen(status) == TRUE

\* if pipeline_status == "OK": the gate in front of steps B, C and D
StageGate(status) == status = "OK"

\* (mutant) the existence test left out: the restorer is always run
RestorePreconditionDropped(f) == TRUE

\* log_decrypted_path_abs.exists(), step B's precondition
RestorePrecondition(f) == f.log_decrypted

\* original_main_py_path.exists() and log_restored_path_abs.exists()
ComparePrecondition(f) == f.original_main_py /\ f.log_restored

\* (mutant) an executor that starts a thread per task, however many
StartTaskUnbounded(i) ==
  /\ task_pc[i] = "pending"
  /\ task_pc' = [task_pc EXCEPT ![i] = "decrypt_log"]
  /\ UNCHANGED << main_vars, env_vars, files, locals, result >>

\* (mutant) a cancellation path: the queued task is dropped, never run
StartTaskCancelled(i) ==
  /\ task_pc[i] = "pending"
  /\ task_pc' = [task_pc EXCEPT ![i] = "cancelled"]
  /\ UNCHANGED << main_vars, env_vars, files, locals, result >>

\* A worker thread takes the task off the executor's queue.
StartTask(i) ==
  /\ task_pc[i] = "pending"
  /\ Cardinality(Running) < PoolSize
  /\ task_pc' = [task_pc EXCEPT ![i] = "decrypt_log"]
  /\ UNCHANGED << main_vars, env_vars, files, locals, result >>

\* (mutant) the loop without its break: after a failed decryption the next
\* file is still tried
DecryptWithoutBreak(i) ==
  /\ task_pc[i] \in {"decrypt_log", "decrypt_signature"}
  /\ LET log == task_pc[i] = "decrypt_log"
         input_exists == IF log THEN files[i].log_encrypted
                                ELSE files[i].signature_encrypted
         next_pc == IF log THEN "decrypt_signature" ELSE "restore"
     IN  IF ~input_exists
           THEN /\ task_pc' = [task_pc EXCEPT ![i] = next_pc]
                /\ UNCHANGED << files, pipeline_status, decryption_ok,
                                poetry_result, calls >>
           ELSE \E outcome \in PoetryOutcomes :
                  /\ calls' = [calls EXCEPT ![i].decoder = @ + 1]
                  /\ poetry_result' =
                       IF log
                         THEN [poetry_result EXCEPT ![i].decoder_log = outcome]
                         ELSE [poetry_result EXCEPT ![i].decoder_signature = outcome]
                  /\ files' = IF outcome # "ok" THEN files
                              ELSE IF log
                                THEN [files EXCEPT ![i].log_decrypted = TRUE]
                                ELSE [files EXCEPT ![i].signature_decrypted = TRUE]
                  /\ decryption_ok' =
                       IF outcome = "fail"
                         THEN [decryption_ok EXCEPT ![i] = FALSE]
                         ELSE decryption_ok
                  /\ pipeline_status' =
                       IF outcome = "fail"
                         THEN [pipeline_status EXCEPT ![i] = "DECRYPT_FAILED"]
                         ELSE pipeline_status
                  /\ task_pc' = [task_pc EXCEPT ![i] =
                       IF outcome = "raise" THEN "raised" ELSE next_pc]
  /\ UNCHANGED << comparison_result, analysis_score, diff_result,
                  inspector_result >>
  /\ UNCHANGED << main_vars, env_vars, result >>

\* STEP A, one iteration of the loop over files_to_decrypt; leaving the
\* loop (by break or after the signature) includes the statement after it.
Decrypt(i) ==
  /\ task_pc[i] \in {"decrypt_log", "decrypt_signature"}
  /\ LET log == task_pc[i] = "decrypt_log"
         input_exists == IF log THEN files[i].log_encrypted
                                ELSE files[i].signature_encrypted
         next_pc == IF log THEN "decrypt_signature" ELSE "restore"
     IN  IF ~input_exists
           THEN /\ task_pc' = [task_pc EXCEPT ![i] = next_pc]
                /\ UNCHANGED << files, pipeline_status, decryption_ok,
                                poetry_result, calls >>
           ELSE \E outcome \in PoetryOutcomes :
                  /\ calls' = [calls EXCEPT ![i].decoder = @ + 1]
                  /\ poetry_result' =
                       IF log
                         THEN [poetry_result EXCEPT ![i].decoder_log = outcome]
                         ELSE [poetry_result EXCEPT ![i].decoder_signature = outcome]
                  /\ files' = IF outcome # "ok" THEN files
                              ELSE IF log
                                THEN [files EXCEPT ![i].log_decrypted = TRUE]
                                ELSE [files EXCEPT ![i].signature_decrypted = TRUE]
                  /\ decryption_ok' =
                       [decryption_ok EXCEPT ![i] = (outcome # "fail")]
                  /\ pipeline_status' =
                       IF outcome = "fail"
                         THEN [pipeline_status EXCEPT ![i] =
                                 StatusAfterDecrypt(decryption_ok'[i])]
                         ELSE pipeline_status
                  /\ task_pc' = [task_pc EXCEPT ![i] =
                       CASE outcome = "ok" -> next_pc
                         [] outcome = "fail" -> "restore"
                         [] outcome = "raise" -> "raised"]
  /\ UNCHANGED << comparison_result, analysis_score, diff_result,
                  inspector_result >>
  /\ UNCHANGED << main_vars, env_vars, result >>

\* (mutant) a restorer that is run a second time when its first run failed
RestoreRetrying(i) ==
  /\ task_pc[i] = "restore"
  /\ IF ~StageGate(pipeline_status[i])
       THEN /\ task_pc' = [task_pc EXCEPT ![i] = "compare"]
            /\ UNCHANGED << files, pipeline_status, poetry_result, calls >>
       ELSE IF ~RestorePrecondition(files[i])
         THEN /\ pipeline_status' = [pipeline_status EXCEPT ![i] = "RESTORE_FAILED"]
              /\ task_pc' = [task_pc EXCEPT ![i] = "compare"]
              /\ UNCHANGED << files, poetry_result, calls >>
         ELSE \E outcome \in PoetryOutcomes :
                /\ calls' = [calls EXCEPT ![i].restore =
                               @ + (IF outcome = "fail" THEN 2 ELSE 1)]
                /\ poetry_result' = [poetry_result EXCEPT ![i].restore = outcome]
                /\ files' = IF outcome = "ok"
                              THEN [files EXCEPT ![i].log_restored = TRUE]
                              ELSE files
                /\ pipeline_status' =
                     IF outcome = "fail"
                       THEN [pipeline_status EXCEPT ![i] = "RESTORE_FAILED"]
                       ELSE pipeline_status
                /\ task_pc' = [task_pc EXCEPT ![i] =
                     IF outcome = "raise" THEN "raised" ELSE "compare"]
  /\ UNCHANGED << comparison_result, analysis_score, decryption_ok,
                  diff_result, inspector_result >>
  /\ UNCHANGED << main_vars, env_vars, result >>

\* STEP B
Restore(i) ==
  /\ task_pc[i] = "restore"
  /\ IF ~StageGate(pipeline_status[i])
       THEN /\ task_pc' = [task_pc EXCEPT ![i] = "compare"]
            /\ UNCHANGED << files, pipeline_status, poetry_result, calls >>
       ELSE IF ~RestorePrecondition(files[i])
         THEN /\ pipeline_status' = [pipeline_status EXCEPT ![i] = "RESTORE_FAILED"]
              /\ task_pc' = [task_pc EXCEPT ![i] = "compare"]
              /\ UNCHANGED << files, poetry_result, calls >>
         ELSE \E outcome \in PoetryOutcomes :
                /\ calls' = [calls EXCEPT ![i].restore = @ + 1]
                /\ poetry_result' = [poetry_result EXCEPT ![i].restore = outcome]
                /\ files' = IF outcome = "ok"
                              THEN [files EXCEPT ![i].log_restored = TRUE]
                              ELSE files
                /\ pipeline_status' =
                     IF outcome = "fail"
                       THEN [pipeline_status EXCEPT ![i] = "RESTORE_FAILED"]
                       ELSE pipeline_status
                /\ task_pc' = [task_pc EXCEPT ![i] =
                     IF outcome = "raise" THEN "raised" ELSE "compare"]
  /\ UNCHANGED << comparison_result, analysis_score, decryption_ok,
                  diff_result, inspector_result >>
  /\ UNCHANGED << main_vars, env_vars, result >>

\* STEP C
Compare(i) ==
  /\ task_pc[i] = "compare"
  /\ IF ~StageGate(pipeline_status[i])
       THEN /\ task_pc' = [task_pc EXCEPT ![i] = "analyze"]
            /\ UNCHANGED << comparison_result, diff_result, calls >>
       ELSE IF ~ComparePrecondition(files[i])
         THEN /\ comparison_result' =
                   [comparison_result EXCEPT ![i] = "FILE_MISSING"]
              /\ task_pc' = [task_pc EXCEPT ![i] = "analyze"]
              /\ UNCHANGED << diff_result, calls >>
         ELSE \E run \in DiffOutcomes :
                /\ calls' = [calls EXCEPT ![i].diff = @ + 1]
                /\ diff_result' = [diff_result EXCEPT ![i] = run]
                /\ comparison_result' =
                     IF run.raised THEN comparison_result
                     ELSE [comparison_result EXCEPT ![i] = ComparisonOf(run)]
                /\ task_pc' = [task_pc EXCEPT ![i] =
                     IF run.raised THEN "raised" ELSE "analyze"]
  /\ UNCHANGED << files, pipeline_status, analysis_score, decryption_ok,
                  inspector_result, poetry_result >>
  /\ UNCHANGED << main_vars, env_vars, result >>

\* STEP D
Analyze(i) ==
  /\ task_pc[i] = "analyze"
  /\ IF ~StageGate(pipeline_status[i])
       THEN /\ task_pc' = [task_pc EXCEPT ![i] = "aggregate"]
            /\ UNCHANGED << analysis_score, inspector_result, calls >>
       ELSE IF ~inspector_exists
         THEN /\ analysis_score' =
                   [analysis_score EXCEPT ![i] = Sentinel("ANALYZER_MISSING")]
              /\ task_pc' = [task_pc EXCEPT ![i] = "aggregate"]
              /\ UNCHANGED << inspector_result, calls >>
       ELSE IF ~files[i].log_decrypted
         THEN /\ analysis_score' =
                   [analysis_score EXCEPT ![i] = Sentinel("FILE_MISSING")]
              /\ task_pc' = [task_pc EXCEPT ![i] = "aggregate"]
              /\ UNCHANGED << inspector_result, calls >>
         ELSE \E run \in InspectorOutcomes :
                /\ calls' = [calls EXCEPT ![i].inspector = @ + 1]
                /\ inspector_result' = [inspector_result EXCEPT ![i] = run]
                /\ analysis_score' =
                     IF run.raised THEN analysis_score
                     ELSE [analysis_score EXCEPT ![i] = AnalysisOf(run)]
                /\ task_pc' = [task_pc EXCEPT ![i] =
                     IF run.raised THEN "raised" ELSE "aggregate"]
  /\ UNCHANGED << files, pipeline_status, comparison_result, decryption_ok,
                  diff_result, poetry_result >>
  /\ UNCHANGED << main_vars, env_vars, result >>

\* (mutant) a pipeline that writes its own group into the shared map
\* (duplication_map.setdefault in place of .get)
AggregateWritingTheMap(i) ==
  /\ task_pc[i] = "aggregate"
  /\ \E location \in IF files[i].signature_decrypted
                       THEN SignatureParses ELSE {"FILE_NOT_FOUND"} :
       result' = [result EXCEPT ![i] =
         Row(i, FinalStatus(pipeline_status[i], comparison_result[i]),
             DuplicationGroup(duplication_map, i), analysis_score[i], location)]
  /\ duplication_map' =
       [id \in DOMAIN duplication_map \cup {i} |->
          DuplicationGroup(duplication_map, id)]
  /\ task_pc' = [task_pc EXCEPT ![i] = "returned"]
  /\ UNCHANGED << main_pc, dup_calls, to_submit, report_data, collected,
                  header_writes, report_rows, append_failed >>
  /\ UNCHANGED << env_vars, files, locals >>

\* (mutant) the signature parsed only for a pipeline that succeeded
AggregateLocationGated(i) ==
  /\ task_pc[i] = "aggregate"
  /\ \E location \in IF pipeline_status[i] # "OK" THEN {"N/A"}
                       ELSE IF files[i].signature_decrypted
                         THEN SignatureParses ELSE {"FILE_NOT_FOUND"} :
       result' = [result EXCEPT ![i] =
         Row(i, FinalStatus(pipeline_status[i], comparison_result[i]),
             DuplicationGroup(duplication_map, i), analysis_score[i], location)]
  /\ task_pc' = [task_pc EXCEPT ![i] = "returned"]
  /\ UNCHANGED << main_vars, env_vars, files, locals >>

\* Final aggregation and return of the row.
Aggregate(i) ==
  /\ task_pc[i] = "aggregate"
  /\ \E location \in IF files[i].signature_decrypted
                       THEN SignatureParses ELSE {"FILE_NOT_FOUND"} :
       result' = [result EXCEPT ![i] =
         Row(i, FinalStatus(pipeline_status[i], comparison_result[i]),
             DuplicationGroup(duplication_map, i), analysis_score[i], location)]
  /\ task_pc' = [task_pc EXCEPT ![i] = "returned"]
  /\ UNCHANGED << main_vars, env_vars, files, locals >>

\* --------------------------------------------------------------- main()

main_unchanged == UNCHANGED << env_vars, files, task_pc, locals, result >>

\* Step 4: open(report_csv_path, 'w') and write the header; IOError exits.
WriteHeader ==
  /\ main_pc = "write_header"
  /\ \E io_ok \in BOOLEAN :
       IF io_ok
         THEN /\ header_writes' = header_writes + 1
              /\ report_rows' = << >>
              /\ main_pc' = "prepare_tools"
         ELSE /\ main_pc' = "exit"
              /\ UNCHANGED << header_writes, report_rows >>
  /\ UNCHANGED << duplication_map, dup_calls, to_submit, report_data, collected,
                  append_failed >>
  /\ main_unchanged

\* Step 5: ensure_poetry_project_ready for the decoder and the restorer.
PrepareTools ==
  /\ main_pc = "prepare_tools"
  /\ \E all_ready \in BOOLEAN :
       main_pc' = IF all_ready THEN "resolve_duplicates" ELSE "exit"
  /\ UNCHANGED << duplication_map, dup_calls, to_submit, report_data, collected,
                  header_writes, report_rows, append_failed >>
  /\ main_unchanged

\* Step 6: the duplicate finder, run once, and the parse of its stdout.
ResolveDuplicates ==
  /\ main_pc = "resolve_duplicates"
  /\ dup_calls' = IF dup_tool.exists THEN dup_calls + 1 ELSE dup_calls
  /\ duplication_map' =
       IF dup_tool.exists /\ dup_tool.ok
         THEN ParseDupOutput(dup_tool.stdout)
         ELSE << >>
  /\ main_pc' = "discover"
  /\ UNCHANGED << to_submit, report_data, collected, header_writes,
                  report_rows, append_failed >>
  /\ main_unchanged

\* Step 7, first two statements: the sorted directory list, report_data = [].
Discover ==
  /\ main_pc = "discover"
  /\ to_submit' = SortedDirs(student_dirs)
  /\ report_data' = << >>
  /\ main_pc' = "submit"
  /\ UNCHANGED << duplication_map, dup_calls, collected, header_writes, report_rows,
                  append_failed >>
  /\ main_unchanged

\* executor.submit(process_student_submission, sd, ...) for the next sd.
Submit ==
  /\ main_pc = "submit"
  /\ to_submit # << >>
  /\ task_pc' = [task_pc EXCEPT ![Head(to_submit)] = "pending"]
  /\ to_submit' = Tail(to_submit)
  /\ UNCHANGED << main_pc, duplication_map, dup_calls, report_data, collected,
                  header_writes, report_rows, append_failed >>
  /\ UNCHANGED << env_vars, files, locals, result >>

\* Leaving the with block: executor.shutdown(wait=True) returns once every
\* submitted task has finished.
ExecutorShutdown ==
  /\ main_pc = "submit"
  /\ to_submit = << >>
  /\ Finished = student_dirs
  /\ main_pc' = "collect"
  /\ UNCHANGED << duplication_map, dup_calls, to_submit, report_data, collected,
                  header_writes, report_rows, append_failed >>
  /\ main_unchanged

\* What the as_completed loop appends for one future.
CollectedRow(i) ==
  IF task_pc[i] = "raised" THEN CrashRow(i) ELSE result[i]

\* (mutant) an except clause that only logs: a crashed task leaves no row
CollectDroppingCrashed ==
  /\ main_pc = "collect"
  /\ \E i \in student_dirs \ collected :
       /\ report_data' = IF task_pc[i] = "raised" THEN report_data
                         ELSE Append(report_data, result[i])
       /\ collected' = collected \cup {i}
  /\ UNCHANGED << main_pc, duplication_map, dup_calls, to_submit, header_writes,
                  report_rows, append_failed >>
  /\ main_unchanged

\* (mutant) no try around future.result(): a crashed task's exception
\* leaves main
CollectAbortingOnCrash ==
  /\ main_pc = "collect"
  /\ \E i \in student_dirs \ collected :
       IF task_pc[i] = "raised"
         THEN /\ main_pc' = "exit"
              /\ UNCHANGED << report_data, collected >>
         ELSE /\ report_data' = Append(report_data, result[i])
              /\ collected' = collected \cup {i}
              /\ UNCHANGED main_pc
  /\ UNCHANGED << duplication_map, dup_calls, to_submit, header_writes,
                  report_rows, append_failed >>
  /\ main_unchanged

\* One iteration of the as_completed loop; the futures are all finished and
\* come in no particular order.
Collect ==
  /\ main_pc = "collect"
  /\ \E i \in student_dirs \ collected :
       /\ report_data' = Append(report_data, CollectedRow(i))
       /\ collected' = collected \cup {i}
  /\ UNCHANGED << main_pc, duplication_map, dup_calls, to_submit, header_writes,
                  report_rows, append_failed >>
  /\ main_unchanged

\* (mutant) the rows written in the order they were collected
RowsToWriteUnsorted(data) == data

\* The rows step 8 hands to writer.writerows
RowsToWrite(data) == SortedByStudentId(data)

\* (mutant) step 8 run as soon as main is at the loop, without waiting for
\* the loop to have collected every future
WriteReportWithoutWaiting ==
  /\ main_pc = "collect"
  /\ report_rows' = report_rows \o RowsToWrite(report_data)
  /\ main_pc' = "done"
  /\ UNCHANGED << duplication_map, dup_calls, to_submit, report_data, collected,
                  header_writes, append_failed >>
  /\ main_unchanged

\* Step 8: append the sorted rows; an IOError is logged and main goes on.
\* A failed append leaves a proper prefix of the rows (none when the open
\* failed).
WriteReport ==
  /\ main_pc = "collect"
  /\ collected = student_dirs
  /\ LET rows == RowsToWrite(report_data)
     IN  \E io_ok \in BOOLEAN :
           IF io_ok
             THEN /\ report_rows' = report_rows \o rows
                  /\ UNCHANGED append_failed
             ELSE /\ \E n \in 0..(IF rows = << >> THEN 0 ELSE Len(rows) - 1) :
                       report_rows' = report_rows \o SubSeq(rows, 1, n)
                  /\ append_failed' = TRUE
  /\ main_pc' = "done"
  /\ UNCHANGED << duplication_map, dup_calls, to_submit, report_data, collected,
                  header_writes >>
  /\ main_unchanged

Next ==
  \/ WriteHeader
  \/ PrepareTools
  \/ ResolveDuplicates
  \/ Discover
  \/ Submit
  \/ ExecutorShutdown
  \/ Collect
  \/ WriteReport
  \/ \E i \in student_dirs :
       \/ StartTask(i)
       \/ Decrypt(i)
       \/ Restore(i)
       \/ Compare(i)
       \/ Analyze(i)
       \/ Aggregate(i)

Spec == Init /\ [][Next]_vars

SpecItem == InitItem /\ [][Next]_vars

SpecDup == InitDup /\ [][Next]_vars

\* Between the existence test of step B and the one of step D the
\* decrypted log is in the hands of the file system: a tool the pipeline
\* runs, or anything else on the machine, may remove it.
RemoveDecryptedLog(i) ==
  /\ task_pc[i] \in RunningPcs
  /\ files[i].log_decrypted
  /\ files' = [files EXCEPT ![i].log_decrypted = FALSE]
  /\ log_removed' = [log_removed EXCEPT ![i] = TRUE]
  /\ UNCHANGED << main_vars, student_dirs, inspector_exists, dup_tool,
                  task_pc, locals, result >>

NextWithRemoval ==
  \/ Next
  \/ \E i \in student_dirs : RemoveDecryptedLog(i)

\* One student directory in every state of its files, on a machine where
\* the decrypted log may be removed under the pipeline.
SpecRemoval == InitItem /\ [][NextWithRemoval]_vars

\* The steps of main's thread, and the steps of the worker running the
\* task of student i.
MainStep ==
  \/ WriteHeader
  \/ PrepareTools
  \/ ResolveDuplicates
  \/ Discover
  \/ Submit
  \/ ExecutorShutdown
  \/ Collect
  \/ WriteReport

TaskStep(i) ==
  /\ i \in student_dirs
  /\ \/ StartTask(i)
     \/ Decrypt(i)
     \/ Restore(i)
     \/ Compare(i)
     \/ Analyze(i)
     \/ Aggregate(i)

\* Any set of student directories with fresh output directories, the
\* duplicate finder absent.
InitFair ==
  /\ student_dirs \in SUBSET StudentIds
  /\ files \in [student_dirs -> BatchFileStates]
  /\ inspector_exists \in BOOLEAN
  /\ dup_tool = [exists |-> FALSE, ok |-> FALSE, stdout |-> << >>]
  /\ InitRun

\* Main's thread keeps running, every worker with a task to run keeps
\* running, and every tool invocation returns (each step of a task that
\* invokes a tool is the invocation up to its return).
Fairness ==
  /\ WF_vars(MainStep)
  /\ \A i \in StudentIds : WF_vars(TaskStep(i))

SpecFair == InitFair /\ [][Next]_vars /\ Fairness

\* One student directory more than the pool has workers.
PoolStudentIds == { << k >> : k \in 1..(PoolSize + 1) }

\* More submissions than workers, the first one complete and the others
\* without a log subdirectory; no analyzer, no duplicate finder.
InitPool ==
  /\ student_dirs = PoolStudentIds
  /\ files = [i \in student_dirs |->
                CHOOSE f \in BatchFileStates : f.log_encrypted = (i = << 1 >>)]
  /\ inspector_exists = FALSE
  /\ dup_tool = [exists |-> FALSE, ok |-> FALSE, stdout |-> << >>]
  /\ InitRun

SpecPool == InitPool /\ [][Next]_vars

\* ================================================================ claims

RowIds(rows) == { rows[k].student_id : k \in 1..Len(rows) }

DistinctIds(rows) ==
  \A j, k \in 1..Len(rows) : j # k => rows[j].student_id # rows[k].student_id

OneRowPerStudent(rows) ==
  /\ Len(rows) = Cardinality(student_dirs)
  /\ RowIds(rows) = student_dirs
  /\ DistinctIds(rows)

Raised == { i \in student_dirs : task_pc[i] = "raised" }
Returned == { i \in student_dirs : task_pc[i] = "returned" }

RowsInIdOrder ==
  [k \in 1..Cardinality(student_dirs) |->
     CollectedRow(SortedDirs(student_dirs)[k])]

\* C2: the data rows of the report are in ascending order of student_id,
\* and they are the students' rows in id order whatever the order in which
\* the futures were collected (all of them when the append succeeded, a
\* prefix of them when it failed).
C2_RowsSortedWhateverTheCompletionOrder ==
  main_pc = "done" =>
    /\ \A j, k \in 1..Len(report_rows) :
         j < k => StrLess(report_rows[j].student_id, report_rows[k].student_id)
    /\ Len(report_rows) <= Cardinality(student_dirs)
    /\ \A k \in 1..Len(report_rows) : report_rows[k] = RowsInIdOrder[k]
    /\ ~append_failed => Len(report_rows) = Cardinality(student_dirs)

\* the futures were collected in descending id order, the rows written
\* in ascending order
C2_Witness ==
  /\ main_pc = "done"
  /\ ~append_failed
  /\ Len(report_data) = 2
  /\ StrLess(report_data[2].student_id, report_data[1].student_id)
  /\ Len(report_rows) = 2
  /\ report_rows[1] = report_data[2]

\* ---------------------------------------------------------------- C3
CrashRecord(i) ==
  [student_id |-> i, status |-> "PIPELINE_CRASH", duplication_group |-> "N/A",
   process_analysis_score |-> [sentinel |-> "N/A"], location |-> "N/A"]

RowsOf(rows, i) == { k \in 1..Len(rows) : rows[k].student_id = i }

DecryptorFailed(i) ==
  \/ poetry_result[i].decoder_log = "fail"
  \/ poetry_result[i].decoder_signature = "fail"

NotAnalyzed == [sentinel |-> "NOT_ANALYZED"]

\* C4: once a decryptor invocation for a student has failed, the restorer,
\* the differ and the analyzer are never invoked for that student,
\* comparison_result stays NOT_CHECKED and analysis_score NOT_ANALYZED, the
\* task does not raise, and the row it returns has status DECRYPT_FAILED.
C4_DecryptFailureShortCircuits ==
  \A i \in student_dirs :
    DecryptorFailed(i) =>
      /\ calls[i].restore = 0 /\ calls[i].diff = 0 /\ calls[i].inspector = 0
      /\ comparison_result[i] = "NOT_CHECKED"
      /\ analysis_score[i] = NotAnalyzed
      /\ task_pc[i] # "raised"
      /\ task_pc[i] = "returned" =>
           /\ result[i].status = "DECRYPT_FAILED"
           /\ result[i].process_analysis_score = NotAnalyzed

\* the log was decrypted, the signature's decryption failed
C4_Witness ==
  \E i \in student_dirs :
    /\ task_pc[i] = "returned"
    /\ poetry_result[i].decoder_log = "ok"
    /\ poetry_result[i].decoder_signature = "fail"
    /\ result[i].status = "DECRYPT_FAILED"

\* ---------------------------------------------------------------- C5
RestoreFailed(i) == pipeline_status[i] = "RESTORE_FAILED"
CompareFailed(i) == comparison_result[i] \in {"FILE_MISSING", "CHECK_FAILED"}

DecryptFailureSkipsTheRest(i) ==
  DecryptorFailed(i) =>
    /\ calls[i].restore = 0 /\ calls[i].diff = 0 /\ calls[i].inspector = 0
    /\ comparison_result[i] = "NOT_CHECKED"
    /\ analysis_score[i] = NotAnalyzed
    /\ task_pc[i] = "returned" => result[i].status = "DECRYPT_FAILED"

RestoreFailureSkipsTheRest(i) ==
  RestoreFailed(i) =>
    /\ calls[i].diff = 0 /\ calls[i].inspector = 0
    /\ comparison_result[i] = "NOT_CHECKED"
    /\ analysis_score[i] = NotAnalyzed
    /\ task_pc[i] = "returned" => result[i].status = "RESTORE_FAILED"

\* C5 as stated: once Decrypt, Restore or Compare has failed, every later
\* stage is skipped and the final status is the failure code of the first
\* stage that failed.  (Refuted for Compare: its failure leaves
\* pipeline_status at OK, so step D still runs the analyzer.)
C5_AnyFailureSkipsLaterStages ==
  \A i \in student_dirs :
    /\ DecryptFailureSkipsTheRest(i)
    /\ RestoreFailureSkipsTheRest(i)
    /\ CompareFailed(i) =>
         /\ calls[i].inspector = 0
         /\ analysis_score[i] = NotAnalyzed
         /\ task_pc[i] = "returned" => result[i].status = comparison_result[i]

\* C5 amended: once Decrypt or Restore has failed, every later stage is
\* skipped (tool not invoked, result left at its initial sentinel) and the
\* final status is that stage's failure code; a Compare failure
\* (FILE_MISSING, CHECK_FAILED) does not skip Analyze, but it is the final
\* status whatever Analyze then does; pipeline_status never holds anything
\* but OK, DECRYPT_FAILED and RESTORE_FAILED.
C5_DecryptOrRestoreFailureSkipsLaterStages ==
  \A i \in student_dirs :
    /\ DecryptFailureSkipsTheRest(i)
    /\ RestoreFailureSkipsTheRest(i)
    /\ pipeline_status[i] \in {"OK", "DECRYPT_FAILED", "RESTORE_FAILED"}
    /\ poetry_result[i].restore = "fail" => RestoreFailed(i)
    /\ (CompareFailed(i) /\ task_pc[i] = "returned") =>
         result[i].status = comparison_result[i]

\* the restorer failed; the differ and the analyzer were skipped
C5_Witness ==
  \E i \in student_dirs :
    /\ task_pc[i] = "returned"
    /\ poetry_result[i].restore = "fail"
    /\ calls[i].diff = 0 /\ calls[i].inspector = 0
    /\ result[i].status = "RESTORE_FAILED"
    /\ result[i].process_analysis_score = NotAnalyzed

\* ---------------------------------------------------------------- C6
\* C6: for a student whose pipeline returned with Decrypt and Restore
\* succeeded (pipeline_status OK) and both the original and the restored
\* file present, the differ was invoked exactly once and the row's status
\* is OK if it exited 0 with the marker in stdout, DIFFERENT if it exited 0
\* without the marker, CHECK_FAILED if it exited non-zero.
C6_StatusFollowsTheDiffer ==
  \A i \in student_dirs :
    ( /\ task_pc[i] = "returned"
      /\ pipeline_status[i] = "OK"
      /\ files[i].original_main_py /\ files[i].log_restored ) =>
      /\ diff_result[i].ran /\ ~diff_result[i].raised
      /\ calls[i].diff = 1
      /\ (diff_result[i].exit0 /\ diff_result[i].marker) =>
           result[i].status = "OK"
      /\ (diff_result[i].exit0 /\ ~diff_result[i].marker) =>
           result[i].status = "DIFFERENT"
      /\ ~diff_result[i].exit0 => result[i].status = "CHECK_FAILED"

\* a non-zero exit with the marker printed is still CHECK_FAILED
C6_Witness ==
  \E i \in student_dirs :
    /\ task_pc[i] = "returned"
    /\ diff_result[i].ran /\ ~diff_result[i].exit0 /\ diff_result[i].marker
    /\ result[i].status = "CHECK_FAILED"

\* ---------------------------------------------------------------- C7
\* C7: the row a pipeline returns has status DECRYPT_FAILED if a decryptor
\* invocation failed, RESTORE_FAILED if the restorer failed or the
\* decrypted log was missing, and comparison_result otherwise; in
\* particular, with decrypt and restore succeeded and the differ exiting 0
\* without the marker, the status is DIFFERENT.
C7_FinalStatusResolution ==
  \A i \in student_dirs :
    task_pc[i] = "returned" =>
      /\ DecryptorFailed(i) => result[i].status = "DECRYPT_FAILED"
      /\ poetry_result[i].restore = "fail" => result[i].status = "RESTORE_FAILED"
      /\ pipeline_status[i] # "OK" =>
           /\ pipeline_status[i] \in {"DECRYPT_FAILED", "RESTORE_FAILED"}
           /\ result[i].status = pipeline_status[i]
      /\ pipeline_status[i] = "OK" =>
           /\ result[i].status = comparison_result[i]
           /\ ~DecryptorFailed(i) /\ poetry_result[i].restore = "ok"
      /\ ( /\ poetry_result[i].restore = "ok"
           /\ diff_result[i].ran /\ diff_result[i].exit0
           /\ ~diff_result[i].marker ) => result[i].status = "DIFFERENT"

C7_Witness ==
  \E i \in student_dirs :
    /\ task_pc[i] = "returned"
    /\ poetry_result[i].decoder_log = "ok"
    /\ poetry_result[i].restore = "ok"
    /\ diff_result[i].ran /\ diff_result[i].exit0 /\ ~diff_result[i].marker
    /\ result[i].status = "DIFFERENT"

\* ---------------------------------------------------------------- C8
NoLogSubdirectory(i) ==
  ~files[i].log_encrypted /\ ~files[i].signature_encrypted

\* C8 as stated: a student with no log subdirectory gets no decryptor
\* invocation, no decrypt failure, and a row with status RESTORE_FAILED,
\* comparison_result staying NOT_CHECKED.  (Refuted: a decrypted log left
\* in the output directory by an earlier run satisfies step B's
\* precondition, and the restorer runs on it.)
C8_NoLogDirectoryIsRestoreFailed ==
  \A i \in student_dirs :
    (NoLogSubdirectory(i) /\ task_pc[i] = "returned") =>
      /\ calls[i].decoder = 0
      /\ decryption_ok[i]
      /\ calls[i].restore = 0
      /\ result[i].status = "RESTORE_FAILED"
      /\ comparison_result[i] = "NOT_CHECKED"

\* C8 amended: a student with no log subdirectory gets no decryptor
\* invocation and no decrypt failure; if moreover the output directory
\* holds no decrypted log from an earlier run, the restorer is not invoked,
\* the task returns, the row's status is RESTORE_FAILED and
\* comparison_result stays NOT_CHECKED.
C8_NoLogDirectoryAndNoStaleLog ==
  \A i \in student_dirs :
    NoLogSubdirectory(i) =>
      /\ calls[i].decoder = 0
      /\ decryption_ok[i]
      /\ poetry_result[i].decoder_log = NotRun
      /\ poetry_result[i].decoder_signature = NotRun
      /\ ~files[i].log_decrypted =>
           /\ calls[i].restore = 0
           /\ comparison_result[i] = "NOT_CHECKED"
           /\ task_pc[i] # "raised"
           /\ task_pc[i] \in {"compare", "analyze", "aggregate", "returned"} =>
                pipeline_status[i] = "RESTORE_FAILED"
           /\ task_pc[i] = "returned" => result[i].status = "RESTORE_FAILED"

C8_Witness ==
  \E i \in student_dirs :
    /\ NoLogSubdirectory(i)
    /\ ~files[i].log_decrypted
    /\ task_pc[i] = "returned"
    /\ calls[i] = NoCalls
    /\ result[i].status = "RESTORE_FAILED"

\* ---------------------------------------------------------------- C9
IsMemberLine(line) == ~line.dashes /\ line.sep /\ line.match # None

\* the ids the parser is given in member lines (none when the duplicate
\* finder is absent or its invocation failed)
MemberIds ==
  IF dup_tool.exists /\ dup_tool.ok
    THEN { dup_tool.stdout[k].match :
             k \in { n \in 1..Len(dup_tool.stdout) :
                       IsMemberLine(dup_tool.stdout[n]) } }
    ELSE {}

GroupOfLine(k) ==
  Cardinality({ j \in 1..k : dup_tool.stdout[j].dashes })

MemberLinesOf(id) ==
  { k \in 1..Len(dup_tool.stdout) :
      IsMemberLine(dup_tool.stdout[k]) /\ dup_tool.stdout[k].match = id }

Parsed ==
  /\ dup_tool.exists /\ dup_tool.ok
  /\ main_pc \notin {"write_header", "prepare_tools", "resolve_duplicates", "exit"}

\* C10 as stated: every id found in a member line of group k maps to the
\* k-th letter.  (Refuted: an id found in member lines of two groups maps
\* to the later group's letter only.)
C10_EveryMemberLineDecidesTheLabel ==
  Parsed =>
    \A id \in StudentIds : \A k \in MemberLinesOf(id) :
      GroupOfLine(k) >= 1 =>
        /\ id \in DOMAIN duplication_map
        /\ duplication_map[id] = CodePointChars[GroupOfLine(k)]

\* C10 amended: the k-th delimiter line opens group k with label
\* chr(ord('A') + k - 1), the k-th letter for k <= 26; every id found in a
\* member line maps to the label of the group of the LAST member line it is
\* found in; ids found in no member line are not in the map.
C10_LastMemberLineDecidesTheLabel ==
  Parsed =>
    \A id \in StudentIds :
      IF MemberLinesOf(id) = {}
        THEN id \notin DOMAIN duplication_map
        ELSE LET last == CHOOSE k \in MemberLinesOf(id) :
                           \A j \in MemberLinesOf(id) : j <= k
             IN  /\ id \in DOMAIN duplication_map
                 /\ GroupOfLine(last) >= 1 =>
                      duplication_map[id] = CodePointChars[GroupOfLine(last)]

\* two groups, one member each
C10_Witness ==
  /\ Parsed
  /\ dup_tool.stdout =
       << DelimiterLine, MemberLine(<<1, 0>>), DelimiterLine, MemberLine(<<2>>) >>
  /\ duplication_map[<<1, 0>>] = "A"
  /\ duplication_map[<<2>>] = "B"

\* ---------------------------------------------------------------- C11
\* C11 as stated: the duplication group in the row of every pipeline that
\* returns is a single letter or "UNIQUE", whatever the duplicate finder
\* printed.  (Refuted by the code: a member line in front of the first
\* delimiter line is stored with the initial label, the empty string, and
\* the 27th group gets chr(ord('A') + 26), which is "[".)
C11_LabelIsLetterOrUnique ==
  \A i \in student_dirs :
    task_pc[i] = "returned" =>
      result[i].duplication_group \in Letters \cup {"UNIQUE"}

\* ---------------------------------------------------------------- C12
\* C12 as stated: a numeric analysis score in a row is an integer in
\* 0..100, whatever the analyzer printed.  (Refuted by the code: the score
\* pattern captures any run of digits in front of " / 100" and int() of it
\* is stored unchecked, so a printed 101 is the row's score.)
C12_NumericScoreInRange ==
  \A i \in student_dirs :
    /\ IsNumeric(analysis_score[i]) => analysis_score[i].score \in 0..100
    /\ (task_pc[i] = "returned" /\ IsNumeric(result[i].process_analysis_score))
         => result[i].process_analysis_score.score \in 0..100

\* ---------------------------------------------------------------- C13
SetupPcs == { "write_header", "prepare_tools" }

NothingSubmitted == \A i \in student_dirs : task_pc[i] = "unsubmitted"

\* C13: main exits only from the two setup steps (the header could not be
\* written, in which case no header is in the report; or a tool could not
\* be prepared), at a moment when no task has been submitted, and nothing
\* happens after the exit, so no pipeline is ever submitted or started in
\* an aborted run; once a task has been submitted main never exits, a
\* task that raises changes nothing of main, and main goes on from
\* submitting to collecting to done.
C13_OnlySetupErrorsAbort ==
  [][ /\ main_pc # "exit"
      /\ main_pc' = "exit" =>
           /\ main_pc \in SetupPcs
           /\ NothingSubmitted
           /\ UNCHANGED << task_pc, to_submit, report_data, report_rows >>
      /\ main_pc = "write_header" =>
           (main_pc' = "exit" <=> header_writes' = header_writes)
      /\ ~NothingSubmitted =>
           /\ main_pc' \in {"submit", "collect", "done"}
           /\ main_pc' # main_pc =>
                << main_pc, main_pc' >> \in
                  { << "submit", "collect" >>, << "collect", "done" >> }
      /\ \A i \in student_dirs :
           (task_pc[i] # "raised" /\ task_pc'[i] = "raised") =>
             UNCHANGED main_vars
    ]_vars

\* one task crashed in the restorer, another returned, main finished
C13_Witness ==
  /\ main_pc = "done"
  /\ collected = student_dirs
  /\ \E i, j \in student_dirs :
       /\ poetry_result[i].restore = "raise" /\ task_pc[i] = "raised"
       /\ task_pc[j] = "returned"

\* a run that aborted in the tool preparation, its header written
C13_AbortWitness ==
  /\ main_pc = "exit"
  /\ header_writes = 1
  /\ student_dirs # {}
  /\ NothingSubmitted

\* ---------------------------------------------------------------- C14
AllFinishedAndCollected ==
  /\ main_pc = "done"
  /\ Finished = student_dirs
  /\ collected = student_dirs
  /\ Len(report_data) = Cardinality(student_dirs)

Unsubmitted == { i \in student_dirs : task_pc[i] = "unsubmitted" }

\* C15: every discovered directory is submitted exactly once (a task
\* leaves "unsubmitted" only by main's submit of the head of the list
\* still to submit, never comes back to it and is never queued again; the
\* list holds each directory not yet submitted once; none is left when
\* main is past the submit loop), and at every moment the number of
\* pipelines executing is at most the pool size.
C15_SubmittedOnceAndPoolBounded ==
  /\ [] ( /\ Cardinality(Running) <= PoolSize
          /\ main_pc = "submit" =>
               /\ { to_submit[k] : k \in 1..Len(to_submit) } = Unsubmitted
               /\ Len(to_submit) = Cardinality(Unsubmitted)
          /\ main_pc \in {"collect", "done"} => Unsubmitted = {} )
  /\ [][ \A i \in student_dirs :
           /\ task_pc'[i] = "unsubmitted" => task_pc[i] = "unsubmitted"
           /\ task_pc'[i] = "pending" => task_pc[i] \in {"unsubmitted", "pending"}
           /\ (task_pc[i] = "unsubmitted" /\ task_pc'[i] # "unsubmitted") =>
                /\ task_pc'[i] = "pending"
                /\ main_pc = "submit"
                /\ to_submit # << >> /\ Head(to_submit) = i
                /\ to_submit' = Tail(to_submit)
      ]_vars

\* every worker busy and a submitted task waiting for one
C15_Witness ==
  /\ Cardinality(student_dirs) > PoolSize
  /\ Cardinality(Running) = PoolSize
  /\ \E i \in student_dirs : task_pc[i] = "pending"
  /\ Unsubmitted = {}

\* ---------------------------------------------------------------- C16
\* the map step 6 builds from what the duplicate finder did
BuiltMap ==
  IF dup_tool.exists /\ dup_tool.ok THEN ParseDupOutput(dup_tool.stdout)
                                    ELSE << >>

ParallelPhasePcs == { "discover", "submit", "collect", "done" }

\* C16: duplication_map is written by step 6 of main only, at a moment
\* when no task has been submitted; from then on (while tasks are
\* submitted, run and are collected) it is the map step 6 built and no step
\* of main or of any pipeline changes it; the group in every returned row
\* is the lookup of the student's id in that one map, whatever the
\* interleaving.
C16_MapBuiltOnceThenReadOnly ==
  /\ [] ( /\ main_pc \in ParallelPhasePcs => duplication_map = BuiltMap
          /\ ~NothingSubmitted => main_pc \in ParallelPhasePcs
          /\ \A i \in student_dirs :
               task_pc[i] = "returned" =>
                 result[i].duplication_group = DuplicationGroup(BuiltMap, i) )
  /\ [][ duplication_map' # duplication_map =>
           /\ main_pc = "resolve_duplicates"
           /\ NothingSubmitted
           /\ UNCHANGED task_pc
      ]_vars

\* two pipelines returned, one found in group A and one in no group
C16_Witness ==
  /\ dup_tool.exists /\ dup_tool.ok
  /\ duplication_map # << >>
  /\ \E i, j \in student_dirs :
       /\ task_pc[i] = "returned" /\ task_pc[j] = "returned"
       /\ result[i].duplication_group = "A"
       /\ result[j].duplication_group = "UNIQUE"

Invoked(outcome) == outcome # NotRun

PastDecryptLog(i) ==
  task_pc[i] \notin {"unsubmitted", "pending", "decrypt_log"}

PastDecrypt(i) ==
  task_pc[i] \in {"restore", "compare", "analyze", "aggregate", "returned"}

\* C18: the decryptor is invoked on the log first and on the signature
\* second (the signature only once the log was decrypted or skipped); a
\* file that does not exist is skipped, not invoked on and not a failure;
\* a file that exists is invoked on exactly once when its turn comes; the
\* first failed invocation sets DECRYPT_FAILED and is the last decryptor
\* invocation for the student, so a failed log decryption leaves the
\* signature undecrypted; and DECRYPT_FAILED is set by nothing else.
C18_DecryptInOrderStopsAtFirstFailure ==
  \A i \in student_dirs :
    LET log == poetry_result[i].decoder_log
        signature == poetry_result[i].decoder_signature
    IN  /\ ~files[i].log_encrypted => ~Invoked(log)
        /\ ~files[i].signature_encrypted => ~Invoked(signature)
        /\ calls[i].decoder =
             (IF Invoked(log) THEN 1 ELSE 0) + (IF Invoked(signature) THEN 1 ELSE 0)
        /\ (PastDecryptLog(i) /\ files[i].log_encrypted) => Invoked(log)
        /\ Invoked(signature) =>
             /\ PastDecryptLog(i)
             /\ log = IF files[i].log_encrypted THEN "ok" ELSE NotRun
        /\ log = "fail" =>
             ~Invoked(signature)
        /\ (PastDecrypt(i) /\ log # "fail" /\ files[i].signature_encrypted) =>
             Invoked(signature)
        /\ PastDecrypt(i) =>
             /\ DecryptorFailed(i) <=> ~decryption_ok[i]
             /\ DecryptorFailed(i) <=> pipeline_status[i] = "DECRYPT_FAILED"
        /\ (PastDecrypt(i) /\ NoLogSubdirectory(i)) =>
             /\ calls[i].decoder = 0
             /\ decryption_ok[i]

\* both files there; the log decryption failed, the signature was left
C18_Witness ==
  \E i \in student_dirs :
    /\ files[i].log_encrypted /\ files[i].signature_encrypted
    /\ poetry_result[i].decoder_log = "fail"
    /\ poetry_result[i].decoder_signature = NotRun
    /\ calls[i].decoder = 1
    /\ task_pc[i] = "returned"
    /\ result[i].status = "DECRYPT_FAILED"

\* ---------------------------------------------------------------- C19
\* C19 as stated: the step that takes a task with pipeline_status OK
\* through the Analyze stage sets analysis_score to ANALYZER_MISSING when
\* the analyzer executable does not exist, else to FILE_MISSING when the
\* decrypted log does not exist, and else invokes the analyzer (in this
\* case only) and sets the printed integer when it exited 0 with the score
\* pattern in stdout, SCORE_NOT_FOUND when it exited 0 without it, and
\* ANALYSIS_FAILED when the invocation failed, by a non-zero exit or by a
\* failure to launch.  (Refuted by the code: run_executable catches
\* FileNotFoundError and CalledProcessError only, so a launch failure of
\* another kind, such as the PermissionError of an analyzer file that
\* exists and is not executable, leaves the task as an exception with
\* analysis_score never set.)
C19_AnalyzeOutcomes ==
  [][ \A i \in student_dirs :
        ( /\ task_pc[i] = "analyze" /\ task_pc'[i] # "analyze"
          /\ pipeline_status[i] = "OK" ) =>
          LET run == inspector_result'[i]
              invoked == calls'[i].inspector = calls[i].inspector + 1
              score == analysis_score'[i]
          IN  IF ~inspector_exists
                THEN score = Sentinel("ANALYZER_MISSING") /\ ~invoked
              ELSE IF ~files[i].log_decrypted
                THEN score = Sentinel("FILE_MISSING") /\ ~invoked
              ELSE /\ invoked
                   /\ score =
                        IF run.exit0 /\ run.matched THEN Score(run.group1)
                        ELSE IF run.exit0 THEN Sentinel("SCORE_NOT_FOUND")
                        ELSE Sentinel("ANALYSIS_FAILED")
    ]_vars

\* ---------------------------------------------------------------- C20
LocationSentinels ==
  { "FILE_NOT_FOUND", "JSON_DECODE_ERROR", "UNKNOWN_PARSING_ERROR",
    "KEY_OR_TYPE_INVALID" }

\* C20: every step that takes a task out of the aggregation step, whatever
\* pipeline_status, comparison_result and analysis_score are, returns (it
\* never raises) a row whose location is the outcome of parsing the
\* decrypted signature (FILE_NOT_FOUND exactly when that file does not
\* exist, a city or a parse sentinel when it does) and whose other fields
\* are the ones the stages left, the same for every location outcome; the
\* step changes nothing else of the pipeline.
C20_LocationOnlyFillsItsField ==
  [][ \A i \in student_dirs :
        (task_pc[i] = "aggregate" /\ task_pc'[i] # "aggregate") =>
          /\ task_pc'[i] = "returned"
          /\ result'[i].location \in LocationSentinels \cup {"Seoul"}
          /\ result'[i].location = "FILE_NOT_FOUND"
                <=> ~files[i].signature_decrypted
          /\ [result'[i] EXCEPT !.location = "N/A"] =
                [student_id |-> i,
                 status |-> IF pipeline_status[i] = "OK"
                              THEN comparison_result[i] ELSE pipeline_status[i],
                 duplication_group |->
                   IF i \in DOMAIN duplication_map THEN duplication_map[i]
                                                   ELSE "UNIQUE",
                 process_analysis_score |-> analysis_score[i],
                 location |-> "N/A"]
          /\ UNCHANGED << pipeline_status, comparison_result, analysis_score,
                          files >>
    ]_vars

\* the restorer failed and the row still carries the city
C20_Witness ==
  \E i \in student_dirs :
    /\ task_pc[i] = "returned"
    /\ result[i].status = "RESTORE_FAILED"
    /\ result[i].process_analysis_score = NotAnalyzed
    /\ result[i].location = "Seoul"

\* ---------------------------------------------------------------- C21
\* C21: no tool invocation is retried.  In one run the duplicate finder
\* is invoked at most once (once exactly when main is past step 6 and the
\* finder exists); for each student the decryptor is invoked at most once
\* on the log and at most once on the signature, so at most twice, and
\* the restorer, the differ and the analyzer at most once each, whatever
\* the invocations gave: an invocation that failed or raised is the last
\* one of its tool for that student.
C21_NoInvocationIsRetried ==
  /\ dup_calls <= 1
  /\ main_pc \in ParallelPhasePcs =>
       dup_calls = IF dup_tool.exists THEN 1 ELSE 0
  /\ \A i \in student_dirs :
       /\ calls[i].decoder <= 2
       /\ calls[i].decoder =
            (IF poetry_result[i].decoder_log # NotRun THEN 1 ELSE 0)
            + (IF poetry_result[i].decoder_signature # NotRun THEN 1 ELSE 0)
       /\ calls[i].restore = IF poetry_result[i].restore # NotRun THEN 1 ELSE 0
       /\ calls[i].diff = IF diff_result[i].ran THEN 1 ELSE 0
       /\ calls[i].inspector = IF inspector_result[i].ran THEN 1 ELSE 0

\* the finder failed, then the differ and the analyzer both failed: each
\* was invoked once
C21_Witness ==
  /\ dup_tool.exists /\ ~dup_tool.ok /\ dup_calls = 1
  /\ \E i \in student_dirs :
       /\ task_pc[i] = "returned"
       /\ calls[i] = [decoder |-> 2, restore |-> 1, diff |-> 1, inspector |-> 1]
       /\ ~diff_result[i].exit0
       /\ ~inspector_result[i].exit0

\* ---------------------------------------------------------------- C22
RecordStatuses ==
  { "OK", "DIFFERENT", "FILE_MISSING", "CHECK_FAILED", "DECRYPT_FAILED",
    "RESTORE_FAILED" }

\* C22: in the row of every pipeline that returned, the status is one of
\* OK, DIFFERENT, FILE_MISSING, CHECK_FAILED, DECRYPT_FAILED and
\* RESTORE_FAILED, never NOT_CHECKED, and the analysis score is
\* NOT_ANALYZED exactly when the status is DECRYPT_FAILED or
\* RESTORE_FAILED.
C22_StatusDomainAndNotAnalyzed ==
  \A i \in student_dirs :
    task_pc[i] = "returned" =>
      /\ result[i].status \in RecordStatuses
      /\ result[i].status # "NOT_CHECKED"
      /\ result[i].process_analysis_score = [sentinel |-> "NOT_ANALYZED"]
           <=> result[i].status \in {"DECRYPT_FAILED", "RESTORE_FAILED"}

\* the original source was missing and the analyzer failed: FILE_MISSING
\* with ANALYSIS_FAILED
C22_Witness ==
  \E i \in student_dirs :
    /\ task_pc[i] = "returned"
    /\ result[i].status = "FILE_MISSING"
    /\ result[i].process_analysis_score = [sentinel |-> "ANALYSIS_FAILED"]

\* ---------------------------------------------------------------- C23
FileMissing == [sentinel |-> "FILE_MISSING"]

PastRestore(i) ==
  task_pc[i] \in {"compare", "analyze", "aggregate", "returned"}

\* C23: for a student whose decrypted log nothing has removed, the
\* analysis score is never FILE_MISSING, in the pipeline and in the row it
\* returns: a pipeline past step B with pipeline_status OK ran the
\* restorer, which step B does only on a decrypted log that exists, and
\* the log is then still there when step D tests for it.
C23_FileMissingOnlyAfterRemoval ==
  \A i \in student_dirs :
    ~log_removed[i] =>
      /\ analysis_score[i] # FileMissing
      /\ task_pc[i] = "returned" =>
           result[i].process_analysis_score # FileMissing
      /\ (PastRestore(i) /\ pipeline_status[i] = "OK") =>
           /\ poetry_result[i].restore = "ok"
           /\ files[i].log_decrypted

\* nothing removed the log; step D got to the analyzer and a score
C23_Witness ==
  \E i \in student_dirs :
    /\ ~log_removed[i]
    /\ task_pc[i] = "returned"
    /\ pipeline_status[i] = "OK"
    /\ files[i].log_decrypted
    /\ inspector_result[i].ran
    /\ IsNumeric(result[i].process_analysis_score)

\* the log removed after step B: step D reports FILE_MISSING
C23_RemovalWitness ==
  \E i \in student_dirs :
    /\ log_removed[i]
    /\ task_pc[i] = "returned"
    /\ poetry_result[i].restore = "ok"
    /\ result[i].process_analysis_score = FileMissing

====
